---- MODULE Spec2Model ----
(***************************************************************************)
(* check-cnames (main.go): a batch scanner for dangling CNAME records.     *)
(* main reads domains from stdin and sends one job per non-blank line on a *)
(* buffered channel; config.concurrency workers receive jobs, look the     *)
(* CNAME up with retries, verify that its target resolves and classify a   *)
(* dangling target; a printer goroutine prints the results channel.        *)
(*                                                                         *)
(* Strings are TLA+ strings; a character is a string of length one.        *)
(* The DNS server, the system resolver, stdin and the scheduler are the    *)
(* environment: their answers are chosen nondeterministically.             *)
(***************************************************************************)
EXTENDS Integers, Sequences, FiniteSets, TLC

(***************************************************************************)
(* Bounds of the model.                                                    *)
(***************************************************************************)
\* largest value of the -c flag explored (config.concurrency ranges over 1..MaxConcurrency)
MaxConcurrency == 2
\* largest value of the -r flag explored (config.retries ranges over 0..MaxRetries)
MaxRetries == 1
\* largest value of the -r flag explored in the runs of a single job (SpecSolo)
MaxSoloRetries == 3
\* the runs explored have config.concurrency + (number of lines on stdin) <= MaxLoad
MaxLoad == 4
\* largest number of lines on stdin, hence the largest job id
MaxLines == MaxLoad - 1

(***************************************************************************)
(* package strings                                                         *)
(***************************************************************************)
Char(s, i) == SubSeq(s, i, i)

UpperChars == "ABCDEFGHIJKLMNOPQRSTUVWXYZ"
LowerChars == "abcdefghijklmnopqrstuvwxyz"

\* unicode.IsSpace restricted to the characters of the model's alphabet
IsSpace(c) == c \in {" ", "\t"}

\* unicode.ToLower on one character
LowerChar(c) ==
  IF \E k \in 1..Len(UpperChars) : Char(UpperChars, k) = c
  THEN Char(LowerChars, CHOOSE k \in 1..Len(UpperChars) : Char(UpperChars, k) = c)
  ELSE c

\* the characters of s from position k on, in lower case
RECURSIVE LowerFrom(_, _)
LowerFrom(s, k) == IF k > Len(s) THEN "" ELSE LowerChar(Char(s, k)) \o LowerFrom(s, k + 1)

ToLower(s) == LowerFrom(s, 1)

RECURSIVE TrimLeft(_)
TrimLeft(s) ==
  IF s # "" /\ IsSpace(Char(s, 1)) THEN TrimLeft(SubSeq(s, 2, Len(s))) ELSE s

RECURSIVE TrimRight(_)
TrimRight(s) ==
  IF s # "" /\ IsSpace(Char(s, Len(s))) THEN TrimRight(SubSeq(s, 1, Len(s) - 1)) ELSE s

\* faulty variant: trailing white space is kept
TrimSpaceLeftOnly(s) == TrimLeft(s)

TrimSpace(s) == TrimRight(TrimLeft(s))

HasSuffix(s, suffix) ==
  Len(s) >= Len(suffix) /\ SubSeq(s, Len(s) - Len(suffix) + 1, Len(s)) = suffix

TrimSuffix(s, suffix) ==
  IF HasSuffix(s, suffix) THEN SubSeq(s, 1, Len(s) - Len(suffix)) ELSE s

Contains(s, substr) ==
  \E k \in 1..(Len(s) - Len(substr) + 1) : SubSeq(s, k, k + Len(substr) - 1) = substr

(***************************************************************************)
(* Static data of main.go                                                  *)
(***************************************************************************)
\* config.resolvers
resolvers ==
  << "1.1.1.1", "1.0.0.1", "8.8.8.8", "8.8.4.4",
     "9.9.9.9", "149.112.112.112", "208.67.222.222", "208.67.220.220" >>

\* the entries of the map literal vulnerablePatterns, as <<pattern, service>>;
\* a Go map has no order, so this is a set
vulnerablePatterns ==
  {
       <<".s3.amazonaws.com", "AWS S3">>,
       <<".s3-website", "AWS S3">>,
       <<".s3.dualstack", "AWS S3">>,
       <<".cloudfront.net", "AWS CloudFront">>,
       <<".elasticbeanstalk.com", "AWS Elastic Beanstalk">>,
       <<".herokuapp.com", "Heroku">>,
       <<".herokudns.com", "Heroku">>,
       <<".wordpress.com", "WordPress">>,
       <<".pantheonsite.io", "Pantheon">>,
       <<".github.io", "GitHub Pages">>,
       <<".gitlab.io", "GitLab Pages">>,
       <<".surge.sh", "Surge.sh">>,
       <<".bitbucket.io", "Bitbucket">>,
       <<".zendesk.com", "Zendesk">>,
       <<".desk.com", "Desk.com">>,
       <<".fastly.net", "Fastly">>,
       <<".feedpress.me", "FeedPress">>,
       <<".ghost.io", "Ghost">>,
       <<".helpjuice.com", "Helpjuice">>,
       <<".helpscoutdocs.com", "HelpScout">>,
       <<".azurewebsites.net", "Azure">>,
       <<".cloudapp.azure.com", "Azure">>,
       <<".cloudapp.net", "Azure">>,
       <<".trafficmanager.net", "Azure Traffic Manager">>,
       <<".blob.core.windows.net", "Azure Blob">>,
       <<".azureedge.net", "Azure CDN">>,
       <<".azure-api.net", "Azure API Management">>,
       <<".azurefd.net", "Azure Front Door">>,
       <<".statuspage.io", "StatusPage">>,
       <<".uservoice.com", "UserVoice">>,
       <<".smartling.com", "Smartling">>,
       <<".tictail.com", "Tictail">>,
       <<".campaignmonitor.com", "Campaign Monitor">>,
       <<".createsend.com", "CreateSend">>,
       <<".acquia-sites.com", "Acquia">>,
       <<".proposify.biz", "Proposify">>,
       <<".simplebooklet.com", "Simplebooklet">>,
       <<".getresponse.com", "GetResponse">>,
       <<".vend.com", "Vend">>,
       <<".jetbrains.space", "JetBrains Space">>,
       <<".myjetbrains.com", "JetBrains">>,
       <<".netlify.app", "Netlify">>,
       <<".netlify.com", "Netlify">>,
       <<".vercel.app", "Vercel">>,
       <<".now.sh", "Vercel">>
  }

\* time.Millisecond * 100, in milliseconds
BackoffUnit == 100

(***************************************************************************)
(* The environment: lines on stdin, DNS replies, errors                    *)
(***************************************************************************)
\* the raw lines scanner.Text() may deliver
StdinLines == { " \t", " A.Example.COM\t" }

\* the results of rand.Intn(n) explored: the first and the last index
Intn(n) == { k \in {0, n - 1} : 0 <= k /\ k < n }

\* transport errors of c.ExchangeContext
ExchangeErrors == { "i/o timeout", "connection refused" }

nil == "<nil>"

\* resource records: dns.CNAME, dns.A, dns.SOA and any other type
CNAME(target) == [Rrtype |-> "CNAME", Target |-> target]
A == [Rrtype |-> "A", Target |-> ""]
SOA == [Rrtype |-> "SOA", Target |-> ""]
TXT == [Rrtype |-> "TXT", Target |-> ""]

\* the dns.Msg replies explored: r.Answer and r.Ns
NoReply == [Answer |-> <<>>, Ns |-> <<>>]

Replies ==
  { [Answer |-> <<CNAME("X.GitHub.io.HerokuApp.com.")>>, Ns |-> <<>>],
    [Answer |-> <<CNAME("gone.example.org.")>>, Ns |-> <<>>],
    [Answer |-> <<A, CNAME("gone.example.org"), CNAME("b.s3.amazonaws.com.")>>, Ns |-> <<SOA>>],
    [Answer |-> <<A>>, Ns |-> <<>>],
    [Answer |-> <<TXT, A>>, Ns |-> <<TXT>>],
    [Answer |-> <<>>, Ns |-> <<TXT, SOA>>],
    [Answer |-> <<>>, Ns |-> <<TXT>>],
    [Answer |-> <<CNAME(".")>>, Ns |-> <<>>],
    NoReply }

\* what one c.ExchangeContext call gives back: a reply or a transport error
Exchanges ==
  { [r |-> m, err |-> nil] : m \in Replies } \cup
  { [r |-> NoReply, err |-> e] : e \in ExchangeErrors }

\* the exchanges explored in the runs of several jobs: the transport errors, a
\* CNAME matching two patterns, a CNAME matching none, and an A record
CoreExchanges ==
  { x \in Exchanges :
      \/ x.err # nil
      \/ x.r \in { [Answer |-> <<CNAME("X.GitHub.io.HerokuApp.com.")>>, Ns |-> <<>>],
                   [Answer |-> <<CNAME("gone.example.org.")>>, Ns |-> <<>>],
                   [Answer |-> <<A>>, Ns |-> <<>>] } }

(***************************************************************************)
(* getCNAME: one query, and the interpretation of its reply                *)
(***************************************************************************)
\* the question name: the domain made fully qualified
QuestionName(domain) == IF ~HasSuffix(domain, ".") THEN domain \o "." ELSE domain

\* faulty variant: the A records are looked at before the CNAME records
getCNAMEARecordFirst(domain, server, x) ==
  IF x.err # nil
  THEN [cname |-> "", err |-> "DNS query failed: " \o x.err]
  ELSE IF \E k \in 1..Len(x.r.Answer) : x.r.Answer[k].Rrtype = "A"
  THEN [cname |-> "", err |-> nil]
  ELSE IF \E k \in 1..Len(x.r.Answer) : x.r.Answer[k].Rrtype = "CNAME"
  THEN LET first == CHOOSE k \in 1..Len(x.r.Answer) :
                      /\ x.r.Answer[k].Rrtype = "CNAME"
                      /\ \A m \in 1..(k - 1) : x.r.Answer[m].Rrtype # "CNAME"
       IN [cname |-> TrimSuffix(x.r.Answer[first].Target, "."), err |-> nil]
  ELSE [cname |-> "", err |-> nil]

getCNAME(domain, server, x) ==
  IF x.err # nil
  THEN [cname |-> "", err |-> "DNS query failed: " \o x.err]
  ELSE IF \E k \in 1..Len(x.r.Answer) : x.r.Answer[k].Rrtype = "CNAME"
  THEN LET first == CHOOSE k \in 1..Len(x.r.Answer) :
                      /\ x.r.Answer[k].Rrtype = "CNAME"
                      /\ \A m \in 1..(k - 1) : x.r.Answer[m].Rrtype # "CNAME"
       IN [cname |-> TrimSuffix(x.r.Answer[first].Target, "."), err |-> nil]
  ELSE IF \E k \in 1..Len(x.r.Answer) : x.r.Answer[k].Rrtype = "A"
  THEN [cname |-> "", err |-> nil]
  ELSE IF Len(x.r.Ns) > 0 /\ \E k \in 1..Len(x.r.Ns) : x.r.Ns[k].Rrtype = "SOA"
  THEN [cname |-> "", err |-> nil]
  ELSE [cname |-> "", err |-> nil]

(***************************************************************************)
(* checkVulnerableService                                                  *)
(***************************************************************************)
\* faulty variant: the cname is not lowercased before the patterns are tried
checkVulnerableServiceCaseSensitive(cname) ==
  LET hits == { e \in vulnerablePatterns : Contains(cname, e[1]) }
  IN IF hits = {} THEN {""} ELSE { e[2] : e \in hits }

\* faulty variant: a target matching no pattern gets a service name all the same
checkVulnerableServiceDefault(cname) ==
  LET hits == { e \in vulnerablePatterns : Contains(ToLower(cname), e[1]) }
  IN IF hits = {} THEN {"Unknown"} ELSE { e[2] : e \in hits }

\* the services of the entries whose pattern s contains
Hits(s) == { e[2] : e \in { e \in vulnerablePatterns : Contains(s, e[1]) } }

\* The results the range over the map can return: the iteration order of a
\* Go map is unspecified, so any entry whose pattern the lowercased cname
\* contains may be the one reached first; "" when no entry matches.
checkVulnerableService(cname) ==
  UNION { IF Hits(lower) = {} THEN {""} ELSE Hits(lower) : lower \in {ToLower(cname)} }

(***************************************************************************)
(* State                                                                   *)
(***************************************************************************)
VARIABLES
  config,        \* the flags: concurrency, retries, verbose
  dns,           \* what the DNS servers may answer in this run: a set of exchanges
  mainPc,        \* where main is: "scan", "send", "close", "wait", "closeResults", "return", "done"
  unread,        \* the number of lines still to come on stdin
  lines,         \* the lines scanner.Scan() has delivered so far
  scanErr,       \* scanner.Err() once Scan() has returned false
  job,           \* the job main is sending (mainPc = "send")
  jobs,          \* the buffer of the jobs channel
  jobsClosed,    \* close(jobs) has run
  results,       \* the buffer of the results channel
  resultsClosed, \* close(results) has run
  workers,       \* the worker goroutines: position and locals of each
  printerPc,     \* the result printer goroutine: "range" or "exited"
  stdout,        \* the results printed, in order
  stderr,        \* the diagnostics printed, in order
  enqueued,      \* history: the ids of the jobs sent on the jobs channel, in order
  dequeued,      \* history: how often each job was received by a worker
  finished,      \* history: the jobs whose processDomain call has returned
  sent,          \* history: the results sent on the results channel, in order
  lookups,       \* history: per job, what each getCNAMEWithRetry call for it returned
  verified,      \* history: per job, what each resolves() call for it returned
  classified     \* history: per job, what each checkVulnerableService call for it returned

vars == << config, dns, mainPc, unread, lines, scanErr, job, jobs, jobsClosed, results,
           resultsClosed, workers, printerPc, stdout, stderr, enqueued,
           dequeued, finished, sent, lookups, verified, classified >>

\* faulty variant: the loop runs once too often ("i <= config.concurrency")
WorkersOneMore == 1..(config.concurrency + 1)

\* the goroutines started by the loop "for i := 0; i < config.concurrency; i++"
Workers == 1..config.concurrency

\* faulty variant: the results channel is made as large as the jobs channel
ResultsCapDoubled == config.concurrency * 2

\* make(chan job, config.concurrency*2) and make(chan string, config.concurrency)
JobsCap == config.concurrency * 2
ResultsCap == config.concurrency

NoJob == [id |-> 0, domain |-> "", server |-> ""]

\* a worker blocked in "range jobs", holding nothing; trace is the history
\* of the queries and sleeps of the getCNAMEWithRetry call under way
Idle == [pc |-> "recv", j |-> NoJob, i |-> 0, lastErr |-> nil, cname |-> "",
         err |-> nil, service |-> "", trace |-> <<>>]

\* faulty variant: the query goes to the first resolver, whatever the job says
QueryFirstResolver(j, x, got) ==
  [op |-> "query", server |-> resolvers[1], name |-> QuestionName(j.domain), x |-> x,
   cname |-> got.cname, err |-> got.err, ms |-> 0]

Query(j, x, got) ==
  [op |-> "query", server |-> j.server, name |-> QuestionName(j.domain), x |-> x,
   cname |-> got.cname, err |-> got.err, ms |-> 0]
Sleep(ms) ==
  [op |-> "sleep", server |-> "", name |-> "", x |-> [r |-> NoReply, err |-> nil],
   cname |-> "", err |-> nil, ms |-> ms]

\* the results, as the fields fmt.Sprintf puts into the line
Dangling(j, cname) ==
  [kind |-> "DANGLING", id |-> j.id, domain |-> j.domain, cname |-> cname, service |-> ""]
Takeover(j, cname, service) ==
  [kind |-> "TAKEOVER", id |-> j.id, domain |-> j.domain, cname |-> cname, service |-> service]
\* faulty variant: the domain is printed in the place of the cname
OKDomainTwice(j, cname) ==
  [kind |-> "OK", id |-> j.id, domain |-> j.domain, cname |-> j.domain, service |-> ""]

OK(j, cname) ==
  [kind |-> "OK", id |-> j.id, domain |-> j.domain, cname |-> cname, service |-> ""]

\* the process is alive until main returns
Running == mainPc # "done"

\* the state when main starts to read stdin: the flags are parsed, the
\* channels made, the workers and the printer started
Start ==
  /\ mainPc = "scan"
  /\ lines = <<>>
  /\ scanErr = nil
  /\ job = NoJob
  /\ jobs = <<>>
  /\ jobsClosed = FALSE
  /\ results = <<>>
  /\ resultsClosed = FALSE
  /\ workers = [w \in Workers |-> Idle]
  /\ printerPc = "range"
  /\ stdout = <<>>
  /\ stderr = <<>>
  /\ enqueued = <<>>
  /\ dequeued = [id \in 1..MaxLines |-> 0]
  /\ finished = {}
  /\ sent = <<>>
  /\ lookups = [id \in 1..MaxLines |-> <<>>]
  /\ verified = [id \in 1..MaxLines |-> <<>>]
  /\ classified = [id \in 1..MaxLines |-> <<>>]

\* runs of several jobs
Init ==
  /\ config \in [concurrency : 1..MaxConcurrency, retries : 0..MaxRetries, verbose : BOOLEAN]
  /\ dns = CoreExchanges
  /\ unread \in 0..(MaxLoad - config.concurrency)
  /\ Start

\* the exchanges explored in the runs checked for termination: one transport
\* error, a CNAME matching one pattern, and an A record
LiveExchanges ==
  { [r |-> NoReply, err |-> "i/o timeout"],
    [r |-> [Answer |-> <<CNAME("bucket.s3.amazonaws.com.")>>, Ns |-> <<>>], err |-> nil],
    [r |-> [Answer |-> <<A>>, Ns |-> <<>>], err |-> nil] }

\* runs of several jobs, with fewer replies
InitLive ==
  /\ config \in [concurrency : 1..MaxConcurrency, retries : 0..MaxRetries, verbose : BOOLEAN]
  /\ dns = LiveExchanges
  /\ unread \in 0..(MaxLoad - config.concurrency)
  /\ Start

\* runs of at most one job, with every reply and more retries
InitSolo ==
  /\ config \in [concurrency : {1}, retries : 0..MaxSoloRetries, verbose : BOOLEAN]
  /\ dns = Exchanges
  /\ unread \in 0..1
  /\ Start

(***************************************************************************)
(* main                                                                    *)
(***************************************************************************)
\* scanner.Scan() delivers a line; it is normalised, a blank one is skipped,
\* otherwise a resolver is drawn and main goes on to send the job
MainScan ==
  /\ Running /\ mainPc = "scan"
  /\ unread > 0
  /\ \E text \in StdinLines :
       LET domain == ToLower(TrimSpace(text)) IN
       /\ unread' = unread - 1
       /\ lines' = Append(lines, text)
       /\ IF domain = ""
          THEN /\ UNCHANGED << mainPc, job >>
          ELSE \E k \in Intn(Len(resolvers)) :
                 /\ job' = [id |-> Len(lines) + 1, domain |-> domain, server |-> resolvers[k + 1]]
                 /\ mainPc' = "send"
  /\ UNCHANGED << config, dns, scanErr, jobs, jobsClosed, results, resultsClosed, workers,
                  printerPc, stdout, stderr, enqueued, dequeued, finished, sent,
                  lookups, verified, classified >>

\* jobs <- job{...}: blocks while the buffer is full
MainSend ==
  /\ Running /\ mainPc = "send"
  /\ ~jobsClosed
  /\ Len(jobs) < JobsCap
  /\ jobs' = Append(jobs, job)
  /\ enqueued' = Append(enqueued, job.id)
  /\ job' = NoJob
  /\ mainPc' = "scan"
  /\ UNCHANGED << config, dns, unread, lines, scanErr, jobsClosed, results, resultsClosed, workers,
                  printerPc, stdout, stderr, dequeued, finished, sent, lookups,
                  verified, classified >>

\* faulty variant: a read error ends the process at once
MainScanEndFatal ==
  /\ Running /\ mainPc = "scan"
  /\ \E e \in {nil, "read error"} :
       /\ e = nil => unread = 0
       /\ scanErr' = e
       /\ stderr' = IF e # nil THEN Append(stderr, [kind |-> "Error reading input", id |-> 0, domain |-> "", detail |-> e])
                               ELSE stderr
  /\ mainPc' = IF scanErr' # nil THEN "done" ELSE "close"
  /\ UNCHANGED << config, dns, unread, lines, job, jobs, jobsClosed, results, resultsClosed, workers,
                  printerPc, stdout, enqueued, dequeued, finished, sent, lookups,
                  verified, classified >>

\* scanner.Scan() returns false, at the end of the input or on a read error;
\* a read error is reported on stderr
MainScanEnd ==
  /\ Running /\ mainPc = "scan"
  /\ \E e \in {nil, "read error"} :
       /\ e = nil => unread = 0
       /\ scanErr' = e
       /\ stderr' = IF e # nil THEN Append(stderr, [kind |-> "Error reading input", id |-> 0, domain |-> "", detail |-> e])
                               ELSE stderr
  /\ mainPc' = "close"
  /\ UNCHANGED << config, dns, unread, lines, job, jobs, jobsClosed, results, resultsClosed, workers,
                  printerPc, stdout, enqueued, dequeued, finished, sent, lookups,
                  verified, classified >>

\* faulty variant: the jobs channel is never closed
MainCloseJobsForgotten ==
  /\ Running /\ mainPc = "close"
  /\ mainPc' = "wait"
  /\ UNCHANGED << config, dns, unread, lines, scanErr, job, jobs, jobsClosed, results,
                  resultsClosed, workers, printerPc, stdout, stderr, enqueued, dequeued,
                  finished, sent, lookups, verified, classified >>

\* close(jobs)
MainCloseJobs ==
  /\ Running /\ mainPc = "close"
  /\ jobsClosed' = TRUE
  /\ mainPc' = "wait"
  /\ UNCHANGED << config, dns, unread, lines, scanErr, job, jobs, results, resultsClosed, workers,
                  printerPc, stdout, stderr, enqueued, dequeued, finished, sent,
                  lookups, verified, classified >>

\* faulty variant: main does not wait for the workers
MainWaitSkipped ==
  /\ Running /\ mainPc = "wait"
  /\ mainPc' = "closeResults"
  /\ UNCHANGED << config, dns, unread, lines, scanErr, job, jobs, jobsClosed, results, resultsClosed,
                  workers, printerPc, stdout, stderr, enqueued, dequeued, finished,
                  sent, lookups, verified, classified >>

\* wg.Wait(): returns once every worker has run its deferred wg.Done()
MainWait ==
  /\ Running /\ mainPc = "wait"
  /\ \A w \in DOMAIN workers : workers[w].pc = "exited"
  /\ mainPc' = "closeResults"
  /\ UNCHANGED << config, dns, unread, lines, scanErr, job, jobs, jobsClosed, results, resultsClosed,
                  workers, printerPc, stdout, stderr, enqueued, dequeued, finished,
                  sent, lookups, verified, classified >>

\* close(results)
MainCloseResults ==
  /\ Running /\ mainPc = "closeResults"
  /\ resultsClosed' = TRUE
  /\ mainPc' = "return"
  /\ UNCHANGED << config, dns, unread, lines, scanErr, job, jobs, jobsClosed, results, workers,
                  printerPc, stdout, stderr, enqueued, dequeued, finished, sent,
                  lookups, verified, classified >>

\* main returns and the process exits, whatever the other goroutines are doing
MainReturn ==
  /\ Running /\ mainPc = "return"
  /\ mainPc' = "done"
  /\ UNCHANGED << config, dns, unread, lines, scanErr, job, jobs, jobsClosed, results, resultsClosed,
                  workers, printerPc, stdout, stderr, enqueued, dequeued, finished,
                  sent, lookups, verified, classified >>

(***************************************************************************)
(* getCNAMEWithRetry: the conditions of its loop                           *)
(***************************************************************************)
\* "for ...; i <= config.retries; ..."
LoopContinues(i) == i <= config.retries

\* faulty variant: an answer without CNAME is taken for a failure
SucceededWithCNAME(got) == got.err = nil /\ got.cname # ""

\* "if err == nil { return cname, nil }"
Succeeded(got) == got.err = nil

\* "if i < config.retries": a sleep follows every failed attempt but the last
SleepFollows(i) == i < config.retries

\* faulty variant: the delay is computed from i, not i+1
BackoffFromZero(i) == BackoffUnit * i

\* "time.Millisecond * 100 * time.Duration(i+1)", in milliseconds
Backoff(i) == BackoffUnit * (i + 1)

(***************************************************************************)
(* processDomain: the conditions of its branches                           *)
(***************************************************************************)
\* faulty variant: the test for an empty cname is missing
NoCNAMENever(cname) == FALSE

\* "if cname == "" { ... return }"
NoCNAME(cname) == cname = ""

\* faulty variant: the OK line does not depend on -v
ReportsOKAlways == TRUE

\* "else if config.verbose"
ReportsOK == config.verbose

(***************************************************************************)
(* worker and processDomain                                                *)
(***************************************************************************)
\* processDomain returns: the worker is back at "range jobs"
Return(w) ==
  /\ workers' = [workers EXCEPT ![w] = Idle]
  /\ finished' = finished \cup {workers[w].j.id}

\* faulty variant: the job received stays in the channel
WorkerRecvPeek(w) ==
  /\ Running /\ workers[w].pc = "recv"
  /\ jobs # <<>>
  /\ workers' = [workers EXCEPT ![w] = [Idle EXCEPT !.pc = "lookup", !.j = Head(jobs)]]
  /\ dequeued' = [dequeued EXCEPT ![Head(jobs).id] = @ + 1]
  /\ UNCHANGED << config, dns, mainPc, unread, lines, scanErr, job, jobs, jobsClosed,
                  results, resultsClosed, printerPc, stdout, stderr, enqueued, finished,
                  sent, lookups, verified, classified >>

\* "for j := range jobs" receives a job and calls processDomain, which
\* enters the loop of getCNAMEWithRetry with i = 0 (0 <= config.retries)
WorkerRecv(w) ==
  /\ Running /\ workers[w].pc = "recv"
  /\ jobs # <<>>
  /\ jobs' = Tail(jobs)
  /\ workers' = [workers EXCEPT ![w] = [Idle EXCEPT !.pc = "lookup", !.j = Head(jobs)]]
  /\ dequeued' = [dequeued EXCEPT ![Head(jobs).id] = @ + 1]
  /\ UNCHANGED << config, dns, mainPc, unread, lines, scanErr, job, jobsClosed, results,
                  resultsClosed, printerPc, stdout, stderr, enqueued, finished, sent,
                  lookups, verified, classified >>

\* "range jobs" ends when the channel is closed and drained; wg.Done() runs
WorkerExit(w) ==
  /\ Running /\ workers[w].pc = "recv"
  /\ jobs = <<>> /\ jobsClosed
  /\ workers' = [workers EXCEPT ![w].pc = "exited"]
  /\ UNCHANGED << config, dns, mainPc, unread, lines, scanErr, job, jobs, jobsClosed,
                  results, resultsClosed, printerPc, stdout, stderr, enqueued, dequeued,
                  finished, sent, lookups, verified, classified >>

\* one iteration of the loop of getCNAMEWithRetry: a query, then either the
\* return of its result, or the backoff sleep and i++, and the return of
\* lastErr when the loop condition fails
WorkerAttempt(w) ==
  /\ Running /\ workers[w].pc = "lookup"
  /\ \E x \in dns :
       LET me == workers[w]
           got == getCNAME(me.j.domain, me.j.server, x)
           tried == Append(me.trace, Query(me.j, x, got))
       IN
       IF Succeeded(got)
       THEN workers' = [workers EXCEPT ![w] =
              [me EXCEPT !.pc = "lookedUp", !.cname = got.cname, !.err = nil,
                         !.trace = tried]]
       ELSE LET slept == IF SleepFollows(me.i)
                         THEN Append(tried, Sleep(Backoff(me.i)))
                         ELSE tried
            IN
            IF LoopContinues(me.i + 1)
            THEN workers' = [workers EXCEPT ![w] =
                   [me EXCEPT !.i = me.i + 1, !.lastErr = got.err, !.trace = slept]]
            ELSE workers' = [workers EXCEPT ![w] =
                   [me EXCEPT !.pc = "lookedUp", !.i = me.i + 1, !.lastErr = got.err,
                              !.cname = "", !.err = got.err, !.trace = slept]]
  /\ UNCHANGED << config, dns, mainPc, unread, lines, scanErr, job, jobs, jobsClosed,
                  results, resultsClosed, printerPc, stdout, stderr, enqueued, dequeued,
                  finished, sent, lookups, verified, classified >>

\* faulty variant: a failed lookup ends the worker, not only the job
WorkerLookedUpFatal(w) ==
  /\ Running /\ workers[w].pc = "lookedUp"
  /\ LET me == workers[w] IN
     /\ lookups' = [lookups EXCEPT ![me.j.id] =
                      Append(@, [cname |-> me.cname, err |-> me.err,
                                 x |-> me.trace[Len(me.trace)].x])]
     /\ IF me.err # nil
        THEN /\ stderr' = IF config.verbose
                          THEN Append(stderr, [kind |-> "Error querying", id |-> me.j.id,
                                               domain |-> me.j.domain, detail |-> me.err])
                          ELSE stderr
             /\ workers' = [workers EXCEPT ![w] = [Idle EXCEPT !.pc = "exited"]]
             /\ finished' = finished \cup {me.j.id}
        ELSE IF NoCNAME(me.cname)
        THEN /\ stderr' = IF config.verbose
                          THEN Append(stderr, [kind |-> "No CNAME for", id |-> me.j.id,
                                               domain |-> me.j.domain, detail |-> ""])
                          ELSE stderr
             /\ Return(w)
        ELSE /\ workers' = [workers EXCEPT ![w].pc = "verify"]
             /\ UNCHANGED << stderr, finished >>
  /\ UNCHANGED << config, dns, mainPc, unread, lines, scanErr, job, jobs, jobsClosed,
                  results, resultsClosed, printerPc, stdout, enqueued, dequeued, sent,
                  verified, classified >>

\* processDomain after getCNAMEWithRetry has returned: a failed lookup and a
\* domain without CNAME end the job, with a diagnostic when verbose
WorkerLookedUp(w) ==
  /\ Running /\ workers[w].pc = "lookedUp"
  /\ LET me == workers[w] IN
     /\ lookups' = [lookups EXCEPT ![me.j.id] =
                      Append(@, [cname |-> me.cname, err |-> me.err,
                                 x |-> me.trace[Len(me.trace)].x])]
     /\ IF me.err # nil
        THEN /\ stderr' = IF config.verbose
                          THEN Append(stderr, [kind |-> "Error querying", id |-> me.j.id,
                                               domain |-> me.j.domain, detail |-> me.err])
                          ELSE stderr
             /\ Return(w)
        ELSE IF NoCNAME(me.cname)
        THEN /\ stderr' = IF config.verbose
                          THEN Append(stderr, [kind |-> "No CNAME for", id |-> me.j.id,
                                               domain |-> me.j.domain, detail |-> ""])
                          ELSE stderr
             /\ Return(w)
        ELSE /\ workers' = [workers EXCEPT ![w].pc = "verify"]
             /\ UNCHANGED << stderr, finished >>
  /\ UNCHANGED << config, dns, mainPc, unread, lines, scanErr, job, jobs, jobsClosed,
                  results, resultsClosed, printerPc, stdout, enqueued, dequeued, sent,
                  verified, classified >>

\* resolves(ctx, cname): LookupHost of the name succeeds or fails
WorkerVerify(w) ==
  /\ Running /\ workers[w].pc = "verify"
  /\ \E ok \in BOOLEAN :
       LET me == workers[w] IN
       /\ verified' = [verified EXCEPT ![me.j.id] =
                         Append(@, [host |-> TrimSuffix(me.cname, "."), ok |-> ok])]
       /\ IF ~ok
          THEN /\ workers' = [workers EXCEPT ![w].pc = "sendDangling"]
               /\ UNCHANGED finished
          ELSE IF ReportsOK
          THEN /\ workers' = [workers EXCEPT ![w].pc = "sendOK"]
               /\ UNCHANGED finished
          ELSE Return(w)
  /\ UNCHANGED << config, dns, mainPc, unread, lines, scanErr, job, jobs, jobsClosed,
                  results, resultsClosed, printerPc, stdout, stderr, enqueued, dequeued,
                  sent, lookups, classified >>

\* results <- "[DANGLING] ..." blocks while the buffer is full; then
\* checkVulnerableService decides whether a second result follows
WorkerSendDangling(w) ==
  /\ Running /\ workers[w].pc = "sendDangling"
  /\ ~resultsClosed
  /\ Len(results) < ResultsCap
  /\ LET me == workers[w] IN
     /\ results' = Append(results, Dangling(me.j, me.cname))
     /\ sent' = Append(sent, Dangling(me.j, me.cname))
     /\ \E service \in checkVulnerableService(me.cname) :
          /\ classified' = [classified EXCEPT ![me.j.id] = Append(@, service)]
          /\ IF service # ""
             THEN /\ workers' = [workers EXCEPT ![w].pc = "sendTakeover",
                                                ![w].service = service]
                  /\ UNCHANGED finished
             ELSE Return(w)
  /\ UNCHANGED << config, dns, mainPc, unread, lines, scanErr, job, jobs, jobsClosed,
                  resultsClosed, printerPc, stdout, stderr, enqueued, dequeued, lookups,
                  verified >>

\* results <- "[TAKEOVER] ..."
WorkerSendTakeover(w) ==
  /\ Running /\ workers[w].pc = "sendTakeover"
  /\ ~resultsClosed
  /\ Len(results) < ResultsCap
  /\ LET me == workers[w] IN
     /\ results' = Append(results, Takeover(me.j, me.cname, me.service))
     /\ sent' = Append(sent, Takeover(me.j, me.cname, me.service))
  /\ Return(w)
  /\ UNCHANGED << config, dns, mainPc, unread, lines, scanErr, job, jobs, jobsClosed,
                  resultsClosed, printerPc, stdout, stderr, enqueued, dequeued, lookups,
                  verified, classified >>

\* results <- "[OK] ..."
WorkerSendOK(w) ==
  /\ Running /\ workers[w].pc = "sendOK"
  /\ ~resultsClosed
  /\ Len(results) < ResultsCap
  /\ LET me == workers[w] IN
     /\ results' = Append(results, OK(me.j, me.cname))
     /\ sent' = Append(sent, OK(me.j, me.cname))
  /\ Return(w)
  /\ UNCHANGED << config, dns, mainPc, unread, lines, scanErr, job, jobs, jobsClosed,
                  resultsClosed, printerPc, stdout, stderr, enqueued, dequeued, lookups,
                  verified, classified >>

(***************************************************************************)
(* the result printer goroutine                                            *)
(***************************************************************************)
\* faulty variant: the printer takes the newest result of the channel
PrinterPrintNewest ==
  /\ Running /\ printerPc = "range"
  /\ results # <<>>
  /\ stdout' = Append(stdout, results[Len(results)])
  /\ results' = SubSeq(results, 1, Len(results) - 1)
  /\ UNCHANGED << config, dns, mainPc, unread, lines, scanErr, job, jobs, jobsClosed, resultsClosed,
                  workers, printerPc, stderr, enqueued, dequeued, finished, sent,
                  lookups, verified, classified >>

\* "for result := range results { fmt.Println(result) }"
PrinterPrint ==
  /\ Running /\ printerPc = "range"
  /\ results # <<>>
  /\ stdout' = Append(stdout, Head(results))
  /\ results' = Tail(results)
  /\ UNCHANGED << config, dns, mainPc, unread, lines, scanErr, job, jobs, jobsClosed, resultsClosed,
                  workers, printerPc, stderr, enqueued, dequeued, finished, sent,
                  lookups, verified, classified >>

\* the range ends when the channel is closed and drained
PrinterExit ==
  /\ Running /\ printerPc = "range"
  /\ results = <<>> /\ resultsClosed
  /\ printerPc' = "exited"
  /\ UNCHANGED << config, dns, mainPc, unread, lines, scanErr, job, jobs, jobsClosed, results,
                  resultsClosed, workers, stdout, stderr, enqueued, dequeued,
                  finished, sent, lookups, verified, classified >>

Next ==
  \/ MainScan
  \/ MainSend
  \/ MainScanEnd
  \/ MainCloseJobs
  \/ MainWait
  \/ MainCloseResults
  \/ MainReturn
  \/ \E w \in DOMAIN workers : WorkerRecv(w)
  \/ \E w \in DOMAIN workers : WorkerExit(w)
  \/ \E w \in DOMAIN workers : WorkerAttempt(w)
  \/ \E w \in DOMAIN workers : WorkerLookedUp(w)
  \/ \E w \in DOMAIN workers : WorkerVerify(w)
  \/ \E w \in DOMAIN workers : WorkerSendDangling(w)
  \/ \E w \in DOMAIN workers : WorkerSendTakeover(w)
  \/ \E w \in DOMAIN workers : WorkerSendOK(w)
  \/ PrinterPrint
  \/ PrinterExit

Spec == Init /\ [][Next]_vars

SpecSolo == InitSolo /\ [][Next]_vars

\* a worker's next step, whichever it is
WorkerStep(w) ==
  \/ WorkerRecv(w) \/ WorkerExit(w) \/ WorkerAttempt(w) \/ WorkerLookedUp(w)
  \/ WorkerVerify(w) \/ WorkerSendDangling(w) \/ WorkerSendTakeover(w) \/ WorkerSendOK(w)

\* The Go scheduler runs every goroutine that is not blocked, and every
\* query, sleep and LookupHost call returns (each is bounded by
\* config.timeout or by the backoff): a step of main, of a worker or of the
\* printer that stays possible is eventually taken.
Fairness ==
  /\ WF_vars(MainScan \/ MainSend \/ MainScanEnd \/ MainCloseJobs \/ MainWait
              \/ MainCloseResults \/ MainReturn)
  /\ \A w \in 1..MaxConcurrency : WF_vars(w \in DOMAIN workers /\ WorkerStep(w))
  /\ WF_vars(PrinterPrint \/ PrinterExit)

SpecLive == InitLive /\ [][Next]_vars /\ Fairness

(***************************************************************************)
(* Properties                                                              *)
(***************************************************************************)
JobIds == 1..MaxLines

\* the results of job id in a sequence of results, and their kinds
Of(seq, id) == SelectSeq(seq, LAMBDA f : f.id = id)
Kinds(seq) == [k \in 1..Len(seq) |-> seq[k].kind]
IsPrefix(a, b) == Len(a) <= Len(b) /\ SubSeq(b, 1, Len(a)) = a
Range(seq) == { seq[k] : k \in 1..Len(seq) }

\* the jobs received by a worker whose processDomain call has not returned
InFlight == { id \in JobIds : dequeued[id] > 0 } \ finished

\* the workers inside processDomain
Busy == { w \in DOMAIN workers : workers[w].pc \notin {"recv", "exited"} }

\* C1: at most config.concurrency jobs are in flight (received and not yet
\* fully processed, results sent included); every job in flight is held by
\* exactly one worker, and a worker waiting for a job holds none.
C1_InFlightAtMostConcurrency ==
  /\ Cardinality(InFlight) <= config.concurrency
  /\ \A id \in InFlight :
       Cardinality({ w \in Busy : workers[w].j.id = id }) = 1
  /\ \A w \in DOMAIN workers :
       IF w \in Busy THEN workers[w].j.id \in InFlight ELSE workers[w].j = NoJob

\* every worker is busy while a further job waits in the channel
C1_Witness ==
  /\ Cardinality(InFlight) = config.concurrency
  /\ jobs # <<>>
  /\ \E w \in Busy : workers[w].pc = "verify"

\* C2: when the process ends, every result sent on the results channel has
\* been printed, in the order sent, and none is left in the channel.
C2_AllResultsPrinted ==
  mainPc = "done" => (results = <<>> /\ stdout = sent)

\* what holds instead at every moment: the printed results are a prefix of those sent
C2_PrintedIsPrefixOfSent == stdout \o results = sent

\* C3: one job is sent per line read whose trimmed, lowercased text is not
\* empty, none for a blank line; the job carries that text as its domain and
\* a server of the resolver pool; equal lines get a job each.
C3_IsBlank(text) == \A k \in 1..Len(text) : Char(text, k) \in {" ", "\t"}

\* d is text without its leading and trailing white space, in lower case
C3_IsNormalised(text, d) ==
  LET nonWhite == { k \in 1..Len(text) : Char(text, k) \notin {" ", "\t"} }
      a == CHOOSE k \in nonWhite : \A m \in nonWhite : k <= m
      b == CHOOSE k \in nonWhite : \A m \in nonWhite : m <= k
  IN /\ nonWhite # {}
     /\ Len(d) = b - a + 1
     /\ \A k \in 1..Len(d) : Char(d, k) = LowerChar(Char(text, a + k - 1))

C3_JobOfItsLine(j) ==
  /\ j.id \in 1..Len(lines)
  /\ C3_IsNormalised(lines[j.id], j.domain)
  /\ j.server \in Range(resolvers)

C3_OneJobPerNonBlankLine ==
  LET nonBlank == { k \in 1..Len(lines) : ~C3_IsBlank(lines[k]) }
      pending == IF mainPc = "send" THEN {job.id} ELSE {}
  IN /\ Range(enqueued) \cup pending = nonBlank
     /\ Range(enqueued) \cap pending = {}
     /\ \A a, b \in 1..Len(enqueued) : a < b => enqueued[a] < enqueued[b]
     /\ mainPc = "send" => C3_JobOfItsLine(job)
     /\ \A k \in 1..Len(jobs) : C3_JobOfItsLine(jobs[k])
     /\ \A w \in Busy : C3_JobOfItsLine(workers[w].j)

\* a blank line and two equal lines have been read, and both equal lines got a job
C3_Witness ==
  /\ \E k \in 1..Len(lines) : C3_IsBlank(lines[k])
  /\ \E a, b \in Range(enqueued) : a # b /\ lines[a] = lines[b]
  /\ \E k \in 1..Len(jobs) : jobs[k].domain = "a.example.com"

\* C4: every job sent is received by a worker exactly once and processed
\* once; no job is sent twice; once wg.Wait() has returned every job sent
\* has been processed to the end.
C4_EveryJobProcessedOnce ==
  /\ \A id \in JobIds :
       /\ dequeued[id] <= 1
       /\ dequeued[id] = 1 => id \in Range(enqueued)
       /\ Len(lookups[id]) <= dequeued[id]
       /\ id \in finished => dequeued[id] = 1
       /\ Cardinality({ k \in 1..Len(enqueued) : enqueued[k] = id }) <= 1
       /\ Cardinality({ k \in 1..Len(jobs) : jobs[k].id = id }) + dequeued[id]
            = IF id \in Range(enqueued) THEN 1 ELSE 0
  /\ mainPc \in {"closeResults", "return", "done"} =>
       /\ jobs = <<>>
       /\ \A id \in Range(enqueued) : dequeued[id] = 1 /\ id \in finished

\* two workers have shared the jobs of a run that is over
C4_Witness ==
  /\ mainPc = "done"
  /\ config.concurrency = 2
  /\ Len(enqueued) = 2
  /\ finished = {1, 2}

\* the workers whose getCNAMEWithRetry call has returned, the job not yet over
LookedUp == { w \in Busy : workers[w].pc # "lookup" }

Queries(trace) == SelectSeq(trace, LAMBDA e : e.op = "query")

\* trace is n queries with, between query k and query k+1, a sleep of 100 ms x k
C5_Alternates(trace, n) ==
  /\ Len(trace) = 2 * n - 1
  /\ \A k \in 1..n : trace[2 * k - 1].op = "query"
  /\ \A k \in 1..(n - 1) : trace[2 * k].op = "sleep" /\ trace[2 * k].ms = 100 * k

\* C5: a lookup whose every attempt fails makes config.retries + 1 attempts,
\* sleeps 100 ms x i between attempt i and attempt i+1, does not sleep after
\* the last attempt and returns the error of the last attempt.
C5_FailingLookupRetries ==
  \A w \in LookedUp :
    LET me == workers[w]
        q == Queries(me.trace)
    IN (\A k \in 1..Len(q) : q[k].err # nil) =>
         /\ Len(q) = config.retries + 1
         /\ C5_Alternates(me.trace, config.retries + 1)
         /\ me.err # nil
         /\ me.err = q[config.retries + 1].err
         /\ me.cname = ""

\* three attempts have failed, the first and the last with different errors
C5_Witness ==
  \E w \in LookedUp :
    LET me == workers[w] IN
    /\ config.retries = 2
    /\ me.pc = "lookedUp"
    /\ me.err = "DNS query failed: connection refused"
    /\ Len(me.trace) = 5
    /\ me.trace[1].err = "DNS query failed: i/o timeout"

\* C6: the lookup stops at the first attempt that succeeds: if that is
\* attempt k, k <= config.retries + 1 attempts were made, all before it
\* failed, its result is returned without error and no attempt or sleep
\* follows it; inside the loop no attempt has succeeded yet.
C6_StopsAtFirstSuccess ==
  \A w \in Busy :
    LET me == workers[w]
        q == Queries(me.trace)
        won == { k \in 1..Len(q) : q[k].err = nil }
    IN IF me.pc = "lookup"
       THEN won = {}
       ELSE won # {} =>
              LET k == CHOOSE m \in won : \A n \in won : m <= n IN
              /\ k = Len(q)
              /\ k <= config.retries + 1
              /\ C5_Alternates(me.trace, k)
              /\ me.err = nil
              /\ me.cname = q[k].cname

\* the third of at most four attempts has succeeded and the job has gone on
C6_Witness ==
  \E w \in Busy :
    /\ config.retries = 3
    /\ workers[w].pc = "verify"
    /\ Len(Queries(workers[w].trace)) = 3

\* the targets a lookup can return
C7_Targets == { getCNAME("a.example.com", resolvers[1], x).cname : x \in Exchanges }

\* the targets whose lowercased text contains a pattern of the table
C7_MatchingTargets ==
  { c \in C7_Targets : \E e \in vulnerablePatterns : Contains(ToLower(c), e[1]) }

C7_Matches(cname) == cname \in C7_MatchingTargets

\* the lookup of job id has returned a CNAME, which did not resolve
C7_Dangles(id) ==
  /\ lookups[id] # <<>> /\ lookups[id][1].err = nil /\ lookups[id][1].cname # ""
  /\ verified[id] # <<>> /\ ~verified[id][1].ok

\* C7: a job whose CNAME target does not resolve and matches a pattern
\* sends exactly two results, DANGLING then TAKEOVER, and the printer
\* receives them in that order, whatever the other workers do.
C7_DanglingThenTakeover ==
  \A id \in JobIds :
    (C7_Dangles(id) /\ C7_Matches(lookups[id][1].cname)) =>
      /\ IsPrefix(Kinds(Of(sent, id)), <<"DANGLING", "TAKEOVER">>)
      /\ IsPrefix(Kinds(Of(stdout, id)), <<"DANGLING", "TAKEOVER">>)
      /\ id \in finished => Kinds(Of(sent, id)) = <<"DANGLING", "TAKEOVER">>
      /\ \A k \in 1..Len(sent) :
           (sent[k].id = id /\ sent[k].kind = "TAKEOVER") => sent[k].service # ""

\* both results of job 1 are printed, with a result of job 2 between them
C7_Witness ==
  /\ C7_Dangles(1) /\ C7_Matches(lookups[1][1].cname)
  /\ Len(stdout) >= 3
  /\ Kinds(Of(stdout, 1)) = <<"DANGLING", "TAKEOVER">>
  /\ stdout[1].id = 1 /\ stdout[2].id = 2 /\ stdout[3].id = 1

\* C8: checkVulnerableService is a function of the target: two calls with
\* the same target return the same service name.
C8_ClassifierDeterministic ==
  \A a, b \in JobIds :
    (/\ classified[a] # <<>> /\ classified[b] # <<>>
     /\ lookups[a][1].cname = lookups[b][1].cname) => classified[a] = classified[b]

\* C9: a job whose lookup succeeds with a reply that holds no CNAME record
\* sends no result, with or without -v, and neither resolves() nor
\* checkVulnerableService is called for it.
C9_NoCNAMENoResult ==
  \A id \in JobIds :
    \A k \in 1..Len(lookups[id]) :
      LET l == lookups[id][k] IN
      (l.x.err = nil /\ \A m \in 1..Len(l.x.r.Answer) : l.x.r.Answer[m].Rrtype # "CNAME") =>
        /\ l.cname = "" /\ l.err = nil
        /\ Of(sent, id) = <<>>
        /\ verified[id] = <<>>
        /\ classified[id] = <<>>

\* with -v, a job whose reply holds only an SOA in the authority section is over
C9_Witness ==
  /\ config.verbose
  /\ 1 \in finished
  /\ lookups[1] # <<>>
  /\ lookups[1][1].x = [r |-> [Answer |-> <<>>, Ns |-> <<TXT, SOA>>], err |-> nil]
  /\ mainPc = "done"

\* C10: a job whose CNAME target resolves sends one result, of kind OK, with
\* -v and none without; never a DANGLING or TAKEOVER result.
C10_ResolvingTargetOKIffVerbose ==
  \A id \in JobIds :
    (verified[id] # <<>> /\ verified[id][1].ok) =>
      /\ IsPrefix(Kinds(Of(sent, id)), <<"OK">>)
      /\ ~config.verbose => Of(sent, id) = <<>>
      /\ (config.verbose /\ id \in finished) => Kinds(Of(sent, id)) = <<"OK">>
      /\ \A k \in 1..Len(sent) :
           sent[k].id = id => sent[k].cname = lookups[id][1].cname

\* with -v the OK line of a finished job has been printed
C10_Witness ==
  /\ config.verbose
  /\ 1 \in finished
  /\ verified[1] # <<>> /\ verified[1][1].ok
  /\ Kinds(Of(stdout, 1)) = <<"OK">>

\* what a result says, without the domain
C11_Line(f) == << f.kind, f.cname, f.service >>
C11_Lines(seq) == [k \in 1..Len(seq) |-> C11_Line(seq[k])]

\* the results of job id processed on its own, given what its own lookup,
\* its own resolves() call and its own classification returned
C11_Alone(id) ==
  IF lookups[id] = <<>> \/ verified[id] = <<>>
  THEN <<>>
  ELSE LET cname == lookups[id][1].cname IN
       IF lookups[id][1].err # nil \/ cname = ""
       THEN <<>>
       ELSE IF verified[id][1].ok
       THEN (IF config.verbose THEN << <<"OK", cname, "">> >> ELSE <<>>)
       ELSE << <<"DANGLING", cname, "">> >> \o
            (IF classified[id] # <<>> /\ classified[id][1] # ""
             THEN << <<"TAKEOVER", cname, classified[id][1]>> >>
             ELSE <<>>)

\* C11: the results sent in a batch are, job by job, those of the job
\* processed on its own: every result belongs to a job sent, a finished job
\* has sent exactly its own results and a job under way a prefix of them;
\* a job whose lookup fails or finds no CNAME sends none and changes none
\* of another job.
C11_BatchIsUnionOfJobs ==
  /\ \A k \in 1..Len(sent) : sent[k].id \in Range(enqueued)
  /\ \A id \in JobIds :
       /\ IsPrefix(C11_Lines(Of(sent, id)), C11_Alone(id))
       /\ id \in finished => C11_Lines(Of(sent, id)) = C11_Alone(id)
       /\ (lookups[id] # <<>> /\ (lookups[id][1].err # nil \/ lookups[id][1].cname = ""))
            => Of(sent, id) = <<>>
  /\ mainPc \in {"closeResults", "return", "done"} =>
       /\ finished = Range(enqueued)
       /\ \A id \in JobIds \ Range(enqueued) : Of(sent, id) = <<>>

\* a run of two workers is over: the lookup of job 1 failed, job 2 sent its two results
C11_Witness ==
  /\ mainPc = "done"
  /\ config.concurrency = 2
  /\ lookups[1] # <<>> /\ lookups[1][1].err # nil
  /\ Kinds(sent) = <<"DANGLING", "TAKEOVER">>
  /\ sent[1].id = 2

\* the jobs whose lookup has failed on every attempt
C12_Failed == { id \in JobIds : lookups[id] # <<>> /\ lookups[id][1].err # nil }

C12_Diagnostics(id) == SelectSeq(stderr, LAMBDA d : d.id = id)

C12_NoResultWorkerAlive ==
  /\ \A id \in C12_Failed :
       /\ Of(sent, id) = <<>>
       /\ verified[id] = <<>> /\ classified[id] = <<>>
       /\ id \in finished
       /\ IF config.verbose
          THEN /\ Len(C12_Diagnostics(id)) = 1
               /\ C12_Diagnostics(id)[1].kind = "Error querying"
               /\ C12_Diagnostics(id)[1].detail = lookups[id][1].err
          ELSE C12_Diagnostics(id) = <<>>
  /\ \A w \in DOMAIN workers :
       workers[w].pc = "exited" => (jobsClosed /\ jobs = <<>>)

\* C12: a job whose lookup fails on every attempt sends no result and
\* writes one diagnostic, only with -v; its worker stays in its loop (a
\* worker exits only when the jobs channel is closed and drained), every
\* job sent is still processed and the run ends normally.
C12_FailedLookupIsIsolated ==
  /\ [] C12_NoResultWorkerAlive
  /\ [] (C12_Failed # {} =>
           <> (mainPc = "done" /\ finished = Range(enqueued) /\ resultsClosed))

\* without -v the single worker has gone on to job 2 after the lookup of job 1 failed
C12_Witness ==
  /\ config.concurrency = 1
  /\ ~config.verbose
  /\ 1 \in C12_Failed
  /\ 2 \in finished
  /\ stderr = <<>>

\* C13: under fair scheduling every run completes: the jobs channel is
\* closed and drained, every worker has exited, the results channel is
\* closed and main has returned; hence no run stops in a deadlock, also
\* when there are more jobs than the jobs channel holds or more results
\* than the results channel holds.
C13_RunCompletes ==
  <>(/\ mainPc = "done"
     /\ jobsClosed /\ jobs = <<>>
     /\ resultsClosed
     /\ \A w \in DOMAIN workers : workers[w].pc = "exited")

\* a run is over that had three jobs for a jobs channel of two, and two
\* results for a results channel of one
C13_Witness ==
  /\ mainPc = "done"
  /\ Len(enqueued) > JobsCap
  /\ Len(sent) > ResultsCap
  /\ finished = Range(enqueued)

SendPcs == {"sendDangling", "sendTakeover", "sendOK"}

\* C14: the results channel is closed only when every worker has exited and
\* the jobs channel only when main has left its read loop: no worker is
\* about to send on a closed results channel, nor main on a closed jobs channel.
C14_NoSendOnClosedChannel ==
  /\ resultsClosed => \A w \in DOMAIN workers : workers[w].pc = "exited"
  /\ jobsClosed => mainPc \notin {"scan", "send"}
  /\ \A w \in DOMAIN workers : workers[w].pc \in SendPcs => ~resultsClosed
  /\ mainPc = "send" => ~jobsClosed
  /\ resultsClosed => jobsClosed

\* both channels are closed after two workers have sent results
C14_Witness ==
  /\ resultsClosed /\ jobsClosed
  /\ config.concurrency = 2
  /\ Len(sent) >= 2
  /\ mainPc = "return"

C15_Bounded ==
  /\ Len(jobs) <= 2 * config.concurrency
  /\ Len(results) <= config.concurrency

\* C15: the jobs channel never holds more than 2 x concurrency jobs nor the
\* results channel more than concurrency results; while the jobs channel is
\* full main stays at its send, and while the results channel is full a
\* worker stays at its send, until a step of a consumer has made room.
C15_QueuesBoundedProducersBlock ==
  [][/\ C15_Bounded /\ C15_Bounded'
     /\ (mainPc = "send" /\ Len(jobs) = 2 * config.concurrency) =>
          (mainPc' = "send" /\ job' = job /\ enqueued' = enqueued)
     /\ \A w \in DOMAIN workers :
          (workers[w].pc \in SendPcs /\ Len(results) = config.concurrency) =>
            (workers'[w] = workers[w] /\ sent' = sent)]_vars

\* main waits at its send with the third job, the jobs channel of capacity 2
\* being full
C15_Witness ==
  /\ mainPc = "send"
  /\ job.id = 3
  /\ config.concurrency = 1
  /\ Len(jobs) = 2 * config.concurrency

C16_AfterReadError ==
  scanErr # nil =>
    /\ mainPc \notin {"scan", "send"}
    /\ job = NoJob
    /\ Range(enqueued) = { k \in 1..Len(lines) : ~C3_IsBlank(lines[k]) }
    /\ Len(SelectSeq(stderr, LAMBDA d : d.kind = "Error reading input")) = 1
    /\ mainPc # "close" => jobsClosed
    /\ mainPc \in {"closeResults", "return", "done"} =>
         \A id \in Range(enqueued) :
           id \in finished /\ C11_Lines(Of(sent, id)) = C11_Alone(id)

\* C16: after a read error main reads no further line and sends no further
\* job; the error is reported once; the jobs channel is closed, every job of
\* the lines read is processed to the end with its results sent, and the
\* run ends as it does at the end of the input.
C16_ReadErrorDrainsAndEnds ==
  /\ [] C16_AfterReadError
  /\ [][scanErr # nil => (lines' = lines /\ enqueued' = enqueued /\ unread' = unread)]_vars
  /\ [] (scanErr # nil =>
           <> (/\ mainPc = "done" /\ jobsClosed /\ resultsClosed
               /\ finished = Range(enqueued)
               /\ \A w \in DOMAIN workers : workers[w].pc = "exited"))

\* the run is over after a read error that came with one line left unread
\* and two read, whose jobs have sent results
C16_Witness ==
  /\ scanErr # nil
  /\ mainPc = "done"
  /\ unread = 1
  /\ Len(enqueued) = 2
  /\ { sent[k].id : k \in 1..Len(sent) } = {1, 2}

\* C17: a finished job sends a DANGLING result exactly when its CNAME target
\* did not resolve, and a TAKEOVER result exactly when it sent a DANGLING
\* result and checkVulnerableService returned a service name; a dangling
\* target that matches no pattern gives the DANGLING result alone.
C17_DanglingAlwaysTakeoverIffService ==
  \A id \in finished :
    LET kinds == Range(Kinds(Of(sent, id))) IN
    /\ "DANGLING" \in kinds <=> C7_Dangles(id)
    /\ "TAKEOVER" \in kinds <=>
         ("DANGLING" \in kinds /\ classified[id] # <<>> /\ classified[id][1] # "")
    /\ (C7_Dangles(id) /\ ~C7_Matches(lookups[id][1].cname)) =>
         Kinds(Of(sent, id)) = <<"DANGLING">>
    /\ ~C7_Dangles(id) => classified[id] = <<>>

\* the single result of a job whose dangling target matches no pattern has been printed
C17_Witness ==
  /\ 1 \in finished
  /\ C7_Dangles(1)
  /\ lookups[1][1].cname = "gone.example.org"
  /\ Of(stdout, 1) = stdout
  /\ Kinds(stdout) = <<"DANGLING">>
  /\ mainPc = "done"

\* C18 as stated: in the printed sequence every TAKEOVER result comes
\* immediately after the DANGLING result of the same job.
C18_TakeoverImmediatelyAfterDangling ==
  \A k \in 1..Len(stdout) :
    stdout[k].kind = "TAKEOVER" =>
      /\ k > 1
      /\ stdout[k - 1].kind = "DANGLING"
      /\ stdout[k - 1].id = stdout[k].id

\* C18 amended: in the printed sequence every TAKEOVER result comes after
\* the DANGLING result of the same job, with no other result of that job
\* between them; immediately after it when concurrency = 1, while with
\* more workers results of other jobs may come between the two.
C18_TakeoverFollowsItsDangling ==
  \A k \in 1..Len(stdout) :
    stdout[k].kind = "TAKEOVER" =>
      \E m \in 1..(k - 1) :
        /\ stdout[m].kind = "DANGLING"
        /\ stdout[m].id = stdout[k].id
        /\ stdout[m].cname = stdout[k].cname
        /\ \A n \in (m + 1)..(k - 1) : stdout[n].id # stdout[k].id
        /\ config.concurrency = 1 => m = k - 1

\* two workers: both results of job 2 are printed between the two results of job 1
C18_Witness ==
  /\ config.concurrency = 2
  /\ Len(stdout) = 4
  /\ Kinds(stdout) = <<"DANGLING", "DANGLING", "TAKEOVER", "TAKEOVER">>
  /\ stdout[1].id = 1 /\ stdout[2].id = 2 /\ stdout[3].id = 2 /\ stdout[4].id = 1

\* c is t without one trailing dot
C19_Stripped(t, c) ==
  IF t # "" /\ Char(t, Len(t)) = "." THEN c \o "." = t ELSE c = t

\* C19: a reply is interpreted in a fixed order: if its answer section holds
\* a CNAME record, the target of the first one is returned without its
\* trailing dot, whatever else the reply holds; otherwise the empty string;
\* in both cases without error, so that the attempt is the last of the lookup.
C19_AnswerPrecedence ==
  \A w \in Busy :
    LET me == workers[w] IN
    \A k \in 1..Len(me.trace) :
      LET e == me.trace[k]
          ans == e.x.r.Answer
          cn == { m \in 1..Len(ans) : ans[m].Rrtype = "CNAME" }
      IN IF e.op = "query" /\ e.x.err = nil
         THEN /\ e.err = nil
              /\ IF cn # {}
                 THEN C19_Stripped(ans[CHOOSE m \in cn : \A n \in cn : m <= n].Target, e.cname)
                 ELSE e.cname = ""
              /\ k = Len(me.trace)
              /\ me.pc # "lookup"
              /\ me.cname = e.cname /\ me.err = nil
         ELSE e.op = "query" => e.err # nil

\* a reply with an A record before two CNAME records and an SOA has given the first CNAME
C19_Witness ==
  \E w \in Busy :
    LET me == workers[w] IN
    /\ me.pc = "verify"
    /\ me.cname = "gone.example.org"
    /\ me.trace[Len(me.trace)].x.r =
         [Answer |-> <<A, CNAME("gone.example.org"), CNAME("b.s3.amazonaws.com.")>>,
          Ns |-> <<SOA>>]

\* C20: every query of a job, the first and the retries, goes to the server
\* of the job, a member of config.resolvers, and asks for the job's domain;
\* the results sent carry the normalised text of the job's line.
C20_SameServerSameDomain ==
  /\ \A w \in Busy :
       LET me == workers[w]
           q == Queries(me.trace)
       IN /\ me.j.server \in Range(resolvers)
          /\ \A k \in 1..Len(q) :
               /\ q[k].server = me.j.server
               /\ q[k].name = me.j.domain \o "."
          /\ C3_IsNormalised(lines[me.j.id], me.j.domain)
  /\ \A k \in 1..Len(sent) :
       C3_IsNormalised(lines[sent[k].id], sent[k].domain)

\* after a retry at the last resolver of the pool the job has sent its first result
C20_Witness ==
  \E w \in Busy :
    LET me == workers[w] IN
    /\ me.pc = "sendTakeover"
    /\ me.j.server = "208.67.220.220"
    /\ Len(Queries(me.trace)) >= 2
    /\ Len(sent) = 1 /\ sent[1].domain = "a.example.com"

====
